---- MODULE Spec2Model ----
(***************************************************************************)
(* Retrieval engine of ExamPrepAgent: TiDBConnection.get_random_qa and     *)
(* TiDBConnection.search_pair (src/database/tidb.py), running against the  *)
(* kubernetes_qa_pairs table through the connection's single cursor.       *)
(*                                                                         *)
(* Scores are Python floats (IEEE doubles).  The scores the store returns   *)
(* are given in tenths (the double nearest k/10); a score the program      *)
(* holds is the integer Tenth * k + e, which stands for the double e       *)
(* places above (below, for e < 0) the double nearest k/10.  The one       *)
(* floating-point operation of the program, "+ 0.2", is AddBonus; the      *)
(* doubles that arise are ordered as these integers are.  Python None /    *)
(* SQL NULL is the string NULL; a falsy argument (None or "") is the       *)
(* empty string.                                                           *)
(***************************************************************************)
EXTENDS Integers, Sequences, FiniteSets, TLC

\* ------------------------------------------------------------------ bounds
NumRecs  == 2      \* the corpus holds at most this many records
MaxScore == 2      \* field scores range over 1..MaxScore (tenths)
MaxLimit == 2      \* search_pair is called with limit in 0..MaxLimit

\* ------------------------------------------------------- program constants
Bonus         == 2     \* + 0.2 for a record found in both fields (tenths)
TopN          == 5     \* LIMIT 5 and qa_list[:5] of get_random_qa
FallbackScore == 10    \* "score": 1.0 of the fallback candidates (tenths)

NULL == "NULL"

KUBERNETES_TOPICS ==
  << "pods", "services", "deployments", "replicasets", "statefulsets",
     "daemonsets", "jobs", "cronjobs", "namespaces", "configmaps",
     "secrets", "persistent volumes", "persistent volume claims",
     "storage classes", "ingress", "network policies", "service accounts",
     "rbac", "cluster roles", "role bindings", "labels and selectors",
     "annotations", "taints and tolerations", "node affinity",
     "pod affinity", "horizontal pod autoscaler", "vertical pod autoscaler",
     "resource quotas", "limit ranges", "custom resource definitions" >>

\* ------------------------------------------------------------- the corpus
\* A row of kubernetes_qa_pairs.  qs / as are the scores fts_match_word
\* gives the row's question / answer for the term MatchTerm (0: the field
\* does not match); the rows match no other term.
MatchTerm == "pods"

\* the column is VARCHAR(50) and nullable; the loader stores lower-case
\* strings (LoadCsvData below), the table admits NULL as well
StoredDifficulties == {"beginner", "advanced", NULL}

QARecord ==
  [ qs : 0..MaxScore, as : 0..MaxScore, difficulty : StoredDifficulties ]

MkRecord(i, b) ==
  [ id |-> i, qs |-> b.qs, as |-> b.as, difficulty |-> b.difficulty ]

\* the tables of n rows with ids 1..n (id is the AUTO_INCREMENT key) and
\* contents in R
Tables(R, n) == { { MkRecord(i, f[i]) : i \in 1..n } : f \in [1..n -> R] }

\* all tables of n rows
Corpora(n) == Tables(QARecord, n)

\* str.lower() on the difficulty strings that occur
Lower(s) ==
  CASE s = "Beginner" -> "beginner"
    [] s = "BEGINNER" -> "beginner"
    [] s = "Advanced" -> "advanced"
    [] s = "ADVANCED" -> "advanced"
    [] s = "Pods" -> "pods"
    [] OTHER -> s

Min(a, b) == IF a <= b THEN a ELSE b
Max(a, b) == IF a >= b THEN a ELSE b

\* ------------------------------------------------------------- the floats
Tenth == 10

\* the float written k/10 (0.9, 1.0): the double nearest to it
Double(k) == Tenth * k

\* by how many places the double sum Double(k) + 0.2 misses the double
\* nearest (k + 2)/10, for the scores k/10 with k in 0..20:
\* 0.1 + 0.2 = 0.30000000000000004, 0.4 + 0.2 = 0.6000000000000001,
\* 0.7 + 0.2 = 0.8999999999999999, 1.4 + 0.2 = 1.5999999999999999, and the
\* other sums are the nearest doubles themselves
BonusRounding(s) ==
  CASE s = Double(1) \/ s = Double(4)  -> 1
    [] s = Double(7) \/ s = Double(14) -> -1
    [] OTHER -> 0

\* s + 0.2 in double arithmetic
AddBonus(s) == s + Double(Bonus) + BonusRounding(s)

\* ------------------------------------------------------ the corpus store
FieldScore(r, field, term) ==
  IF term = MatchTerm
  THEN IF field = "question" THEN r.qs ELSE r.as
  ELSE 0

\* the columns id, question, answer, topic, type, difficulty of a row
BaseRow(r) ==
  [ id |-> r.id, question |-> <<"Q", r.id>>, answer |-> <<"A", r.id>>,
    topic |-> MatchTerm, type |-> "practical", difficulty |-> r.difficulty ]

ScoredRow(r, sc) ==
  [ id |-> r.id, question |-> <<"Q", r.id>>, answer |-> <<"A", r.id>>,
    topic |-> MatchTerm, type |-> "practical", difficulty |-> r.difficulty,
    _score |-> sc ]

\* the enumerations of a finite set, as sequences
RECURSIVE Orderings(_)
Orderings(S) ==
  IF S = {} THEN { <<>> }
  ELSE UNION { { << x >> \o s : s \in Orderings(S \ {x}) } : x \in S }

Take(s, n) == SubSeq(s, 1, Min(n, Len(s)))

\* variant: the statement has no ORDER BY, the matching rows come in any order
FtsSearch_NoOrderBy(corp, field, term, lim) ==
  LET M == { r \in corp : FieldScore(r, field, term) > 0 }
  IN { [ i \in 1..Min(lim, Cardinality(M)) |->
           ScoredRow(s[i], Double(FieldScore(s[i], field, term))) ] :
       s \in Orderings(M) }

\* SELECT ..., fts_match_word(term, field) AS _score FROM kubernetes_qa_pairs
\* WHERE fts_match_word(term, field) ORDER BY _score DESC LIMIT lim:
\* the result sets the store may return (rows of equal score in any order)
FtsSearch(corp, field, term, lim) ==
  LET M == { r \in corp : FieldScore(r, field, term) > 0 }
      sorted == { s \in Orderings(M) :
                    \A i, j \in 1..Len(s) :
                       i < j => FieldScore(s[i], field, term)
                                  >= FieldScore(s[j], field, term) }
  IN { [ i \in 1..Min(lim, Cardinality(M)) |->
           ScoredRow(s[i], Double(FieldScore(s[i], field, term))) ] : s \in sorted }

\* variant: the WHERE clause is added even when no difficulty is given
SelectAll_AlwaysWhere(corp, d) ==
  LET M == { r \in corp : r.difficulty # NULL /\ r.difficulty = d }
  IN { [ i \in 1..Cardinality(M) |-> BaseRow(s[i]) ] : s \in Orderings(M) }

\* SELECT id, question, answer, topic, type, difficulty
\* FROM kubernetes_qa_pairs [WHERE difficulty = d]   (d = "": no WHERE).
\* The statement has no ORDER BY: the store may return the rows in any
\* order.
SelectAll(corp, d) ==
  LET M == { r \in corp : d = "" \/ (r.difficulty # NULL /\ r.difficulty = d) }
  IN { [ i \in 1..Cardinality(M) |-> BaseRow(s[i]) ] : s \in Orderings(M) }

\* ------------------------------------------------------- the result fuser
DefaultQuestionScore == 10   \* result.get('_score', 1.0)
DefaultAnswerScore   == 8    \* result.get('_score', 0.8)

\* result.get('_score', default), the default given in tenths
GetScore(row, default) ==
  IF "_score" \in DOMAIN row THEN row._score ELSE Double(default)

\* results_dict is a Python dict: a sequence of <<key, value>> entries in
\* insertion order, with at most one entry per key
DictHas(d, k) == \E i \in 1..Len(d) : d[i].key = k

DictIndex(d, k) == CHOOSE i \in 1..Len(d) : d[i].key = k

\* d[k] = v : replaces the value of an existing key in place, else appends
DictPut(d, k, v) ==
  IF DictHas(d, k)
  THEN [d EXCEPT ![DictIndex(d, k)] = [key |-> k, val |-> v]]
  ELSE Append(d, [key |-> k, val |-> v])

\* list(d.values())
DictValues(d) == [ i \in 1..Len(d) |-> d[i].val ]

\* the dict literal built for a row; get_random_qa also stores "id"
Candidate(fn, row, sc, mt) ==
  IF fn = "get_random_qa"
  THEN [ id |-> row.id, question |-> row.question, answer |-> row.answer,
         topic |-> row.topic, type |-> row.type,
         difficulty |-> row.difficulty, score |-> sc, match_type |-> mt ]
  ELSE [ question |-> row.question, answer |-> row.answer,
         topic |-> row.topic, type |-> row.type,
         difficulty |-> row.difficulty, score |-> sc, match_type |-> mt ]

\* body of "for result in question_results"
MergeQuestionRow(d, row, fn) ==
  DictPut(d, row.id,
          Candidate(fn, row, GetScore(row, DefaultQuestionScore), "question"))

\* variant: an answer hit is always added as a new candidate
MergeAnswerRow_AlwaysInsert(d, row, fn) ==
  Append(d, [ key |-> row.id,
              val |-> Candidate(fn, row, GetScore(row, DefaultAnswerScore),
                                "answer") ])

\* variant: a record already found by the question search is left as it is
MergeAnswerRow_NoUpdate(d, row, fn) ==
  IF ~DictHas(d, row.id)
  THEN Append(d, [ key |-> row.id,
                   val |-> Candidate(fn, row,
                                     GetScore(row, DefaultAnswerScore),
                                     "answer") ])
  ELSE d

\* variant: the two field scores are added up before the bonus
MergeAnswerRow_Sum(d, row, fn) ==
  IF ~DictHas(d, row.id)
  THEN Append(d, [ key |-> row.id,
                   val |-> Candidate(fn, row,
                                     GetScore(row, DefaultAnswerScore),
                                     "answer") ])
  ELSE LET old == d[DictIndex(d, row.id)].val
       IN  [d EXCEPT ![DictIndex(d, row.id)].val =
              [old EXCEPT !.match_type = "both",
                          !.score = AddBonus(old.score
                                      + GetScore(row, DefaultAnswerScore))]]

\* variant: the bonus is added to the question score, whatever the answer score
MergeAnswerRow_NoMax(d, row, fn) ==
  IF ~DictHas(d, row.id)
  THEN Append(d, [ key |-> row.id,
                   val |-> Candidate(fn, row,
                                     GetScore(row, DefaultAnswerScore),
                                     "answer") ])
  ELSE LET old == d[DictIndex(d, row.id)].val
       IN  [d EXCEPT ![DictIndex(d, row.id)].val =
              [old EXCEPT !.match_type = "both",
                          !.score = AddBonus(old.score)]]

\* variant: the score is combined but the match type is left as it was
MergeAnswerRow_KeepTag(d, row, fn) ==
  IF ~DictHas(d, row.id)
  THEN Append(d, [ key |-> row.id,
                   val |-> Candidate(fn, row,
                                     GetScore(row, DefaultAnswerScore),
                                     "answer") ])
  ELSE LET old == d[DictIndex(d, row.id)].val
       IN  [d EXCEPT ![DictIndex(d, row.id)].val =
              [old EXCEPT !.match_type = old.match_type,
                          !.score =
                            AddBonus(Max(old.score,
                                         GetScore(row,
                                                  DefaultAnswerScore)))]]

\* variant: a record of both fields gets the larger score and no bonus
MergeAnswerRow_NoBonus(d, row, fn) ==
  IF ~DictHas(d, row.id)
  THEN Append(d, [ key |-> row.id,
                   val |-> Candidate(fn, row,
                                     GetScore(row, DefaultAnswerScore),
                                     "answer") ])
  ELSE LET old == d[DictIndex(d, row.id)].val
       IN  [d EXCEPT ![DictIndex(d, row.id)].val =
              [old EXCEPT !.match_type = "both",
                          !.score = Max(old.score,
                                        GetScore(row, DefaultAnswerScore))]]

\* body of "for result in answer_results"
MergeAnswerRow(d, row, fn) ==
  IF ~DictHas(d, row.id)
  THEN Append(d, [ key |-> row.id,
                   val |-> Candidate(fn, row,
                                     GetScore(row, DefaultAnswerScore),
                                     "answer") ])
  ELSE LET old == d[DictIndex(d, row.id)].val
       IN  [d EXCEPT ![DictIndex(d, row.id)].val =
              [old EXCEPT !.match_type = "both",
                          !.score =
                            AddBonus(Max(old.score,
                                         GetScore(row,
                                                  DefaultAnswerScore)))]]

RECURSIVE MergeQuestionRows(_, _, _)
MergeQuestionRows(d, rows, fn) ==
  IF rows = <<>> THEN d
  ELSE MergeQuestionRows(MergeQuestionRow(d, Head(rows), fn), Tail(rows), fn)

RECURSIVE MergeAnswerRows(_, _, _)
MergeAnswerRows(d, rows, fn) ==
  IF rows = <<>> THEN d
  ELSE MergeAnswerRows(MergeAnswerRow(d, Head(rows), fn), Tail(rows), fn)

\* insert x into a list sorted by score descending, after its equals
InsertDesc(sorted, x) ==
  LET n == Cardinality({ i \in 1..Len(sorted) : sorted[i].score >= x.score })
  IN  SubSeq(sorted, 1, n) \o <<x>> \o SubSeq(sorted, n + 1, Len(sorted))

\* qa_list.sort(key=lambda x: x['score'], reverse=True): a stable sort
RECURSIVE SortByScoreDesc(_)
SortByScoreDesc(list) ==
  IF list = <<>> THEN <<>>
  ELSE InsertDesc(SortByScoreDesc(SubSeq(list, 1, Len(list) - 1)),
                  list[Len(list)])

\* variant: the slice qa_list[:limit] is missing
RankAndTruncate_NoSlice(d, lim) == SortByScoreDesc(DictValues(d))

\* variant: the sort is missing
RankAndTruncate_NoSort(d, lim) == Take(DictValues(d), lim)

\* variant: the slice is taken before the sort
RankAndTruncate_SliceFirst(d, lim) == SortByScoreDesc(Take(DictValues(d), lim))

\* qa_list = list(results_dict.values()); sort; qa_list[:limit]
RankAndTruncate(d, lim) == Take(SortByScoreDesc(DictValues(d)), lim)

\* the candidates built from the rows of the fallback query
FallbackCandidates(rows) ==
  [ i \in 1..Len(rows) |->
      Candidate("get_random_qa", rows[i], Double(FallbackScore), "query") ]

\* the difficulty filter raises AttributeError on a NULL difficulty
\* (qa['difficulty'].lower() with qa['difficulty'] None)
FilterRaises(list) == \E i \in 1..Len(list) : list[i].difficulty = NULL

\* variant: the filter keeps every candidate
DifficultyFilter_KeepAll(list, d) == list

\* [qa for qa in qa_list if qa['difficulty'].lower() == difficulty.lower()]
DifficultyFilter(list, d) ==
  LET Keep(qa) == Lower(qa.difficulty) = Lower(d)
  IN  SelectSeq(list, Keep)

\* what a call returns
ReturnNone       == [ kind |-> "None", value |-> <<>> ]
ReturnList(list) == [ kind |-> "list", value |-> list ]
Unset            == [ kind |-> "unset", value |-> <<>> ]

\* variant: the outer handler re-raises (as create_user's does)
OuterExcept_Reraise(fn) == [ kind |-> "raise", value |-> <<>> ]

\* the outer "except Exception" of each function
OuterExcept(fn) ==
  IF fn = "get_random_qa" THEN ReturnNone ELSE ReturnList(<<>>)

\* variant: one try block around both field searches, so that a failure
\* of the question search skips the answer search
AfterFieldExcept_OneTry(stage) == "rank"

\* where a call continues after the inner "except Exception" of a field
\* search has swallowed the error
AfterFieldExcept(stage) == IF stage = "question" THEN "a_exec" ELSE "rank"

\* variant: the selected candidate is returned as it is
Chosen_Whole(qa) == << qa >>

\* question_answer_chosen: the selected candidate's question and answer
Chosen(qa) == << [ question |-> qa.question, answer |-> qa.answer ] >>

\* "if difficulty and qa_list": the list after the filter (unchanged when
\* the filter is not applied or raises)
Filtered(list, d) ==
  IF d # "" /\ list # <<>> /\ ~FilterRaises(list)
  THEN DifficultyFilter(list, d)
  ELSE list

\* the values get_random_qa may return once it holds a non-empty qa_list:
\* the outer handler's value when the filter raises, None when the filter
\* leaves nothing, else the question and answer of any one remaining entry
SelectOutcomes(list, d) ==
  IF d # "" /\ list # <<>> /\ FilterRaises(list)
  THEN { OuterExcept("get_random_qa") }
  ELSE IF Filtered(list, d) = <<>>
       THEN { ReturnNone }
       ELSE { ReturnList(Chosen(Filtered(list, d)[i])) :
                i \in 1..Len(Filtered(list, d)) }

\* ------------------------------------------------------------------ state
Calls == {1, 2}            \* the callers of the module-level tidb_client

VARIABLES
  corpus,            \* the rows of kubernetes_qa_pairs, as committed
  isolation,         \* the isolation level of the store's transactions
  snapshot,          \* the open transaction of self.conn and what it reads
  cursor,            \* self.cursor: the pending (unread) result set
  pc,                \* per call: the statement it is at
  call,              \* per call: function and arguments
  topic,             \* per call: the search term (topic / query_text)
  results_dict,      \* per call: results_dict
  question_results,  \* per call: question_results
  answer_results,    \* per call: answer_results
  qa_list,           \* per call: qa_list
  result,            \* per call: the value returned
  failed,            \* per call: the queries that raised
  users,             \* the rows of the users table
  session,           \* the session's row of chat_sessions: none, live, deleted
  context,           \* chat_sessions.context of the session, decoded
  chat               \* per call: the locals of process_message / create_user

vars == << corpus, isolation, snapshot, cursor, pc, call, topic, results_dict, question_results,
           answer_results, qa_list, result, failed, users, session, context,
           chat >>

\* the state of the chat layer, which the retrieval operations never touch
chatVars == << users, session, context, chat >>

\* the state of the retrieval operations
retrievalVars == << corpus, isolation, snapshot, cursor, pc, call, topic,
                    results_dict, question_results, answer_results,
                    qa_list, result, failed >>

\* the state of the calls of the retrieval operations
callVars == << cursor, pc, call, topic, results_dict, question_results,
               answer_results, qa_list, result, failed >>

\* the locals of a caller of the chat layer that is not in a call; app is
\* the deployment: app.py with llm_api and TiDB, or app_nexus.py with
\* llm_api_nexus and MongoDB
IdleChat(a) ==
  [ at |-> "idle", app |-> a, input |-> "", session_context |-> <<>>,
    messages |-> <<>>, tool_calls |-> <<>>, requests |-> <<>>,
    faults |-> {}, returned |-> "" ]

NoChat == IdleChat("tidb")

NoResultSet == [ rows |-> <<>>, has |-> FALSE ]

\* the isolation levels a store may run the connection's transactions at:
\* snapshot isolation (REPEATABLE READ, the default of TiDB and of MySQL),
\* where every statement of a transaction reads the table as it was when
\* the transaction began, and READ COMMITTED, where every statement reads
\* what is committed when it runs
Isolations == { "snapshot", "read_committed" }

\* the level of a store left at its default
DefaultIsolation == "snapshot"

\* self.conn between transactions: connect(autocommit=False) opens none,
\* and commit() and rollback() end the one that is open
NoTransaction == [ open |-> FALSE, rows |-> {} ]

\* the transaction of self.conn after a statement has run on it: with
\* autocommit off the first statement after a commit or rollback begins a
\* transaction, which under snapshot isolation keeps the table of that
\* moment (under READ COMMITTED nothing is kept)
AfterExecute(level, txn, corp) ==
  IF level = "snapshot" /\ ~txn.open
  THEN [ open |-> TRUE, rows |-> corp ]
  ELSE txn

\* the table a statement of self.conn reads
Visible(txn, corp) == IF txn.open THEN txn.rows ELSE corp

NoCall == [ difficulty |-> "", topic |-> "", fn |-> "", limit |-> 0 ]

TopicArgs      == { MatchTerm, "networking" }
QueryArgs      == { "", MatchTerm }
DifficultyArgs == { "", "Beginner" }

InitWith(C) ==
  /\ corpus \in C
  /\ isolation = DefaultIsolation
  /\ snapshot = NoTransaction
  /\ cursor = NoResultSet
  /\ pc = [c \in Calls |-> "idle"]
  /\ call = [c \in Calls |-> NoCall]
  /\ topic = [c \in Calls |-> ""]
  /\ results_dict = [c \in Calls |-> <<>>]
  /\ question_results = [c \in Calls |-> <<>>]
  /\ answer_results = [c \in Calls |-> <<>>]
  /\ qa_list = [c \in Calls |-> <<>>]
  /\ result = [c \in Calls |-> Unset]
  /\ failed = [c \in Calls |-> {}]
  /\ users = {}
  /\ session = "none"
  /\ context = <<>>
  /\ chat = [c \in Calls |-> NoChat]

\* any table of at most NumRecs rows
Init == \E n \in 0..NumRecs : InitWith(Corpora(n))

\* the initial state of every variable but qa_list, pc, call and result
Untouched ==
  /\ corpus = {}
  /\ isolation = DefaultIsolation
  /\ snapshot = NoTransaction
  /\ cursor = NoResultSet
  /\ topic = [c \in Calls |-> ""]
  /\ results_dict = [c \in Calls |-> <<>>]
  /\ question_results = [c \in Calls |-> <<>>]
  /\ answer_results = [c \in Calls |-> <<>>]
  /\ failed = [c \in Calls |-> {}]

\* the locals of a call at its first statement
Enter(c, args, term) ==
  /\ pc[c] = "idle"
  /\ pc' = [pc EXCEPT ![c] = "q_exec"]
  /\ call' = [call EXCEPT ![c] = args]
  /\ topic' = [topic EXCEPT ![c] = term]
  /\ UNCHANGED << corpus, isolation, snapshot >>
  /\ UNCHANGED << cursor, results_dict, question_results,
                  answer_results, qa_list, result, failed >>
  /\ UNCHANGED chatVars

\* variant: the term is drawn from the vocabulary whatever topic is given
ResolveTopic_AlwaysRandom(t) ==
  { KUBERNETES_TOPICS[k] : k \in 1..Len(KUBERNETES_TOPICS) }

\* "if not topic: topic = random.choice(KUBERNETES_TOPICS)": the terms the
\* searches may be run with for a topic argument ("" is None or empty)
ResolveTopic(t) ==
  IF t = ""
  THEN { KUBERNETES_TOPICS[k] : k \in 1..Len(KUBERNETES_TOPICS) }
  ELSE { t }

\* get_random_qa(difficulty, topic): an unset topic is drawn from the
\* vocabulary with random.choice
CallGetRandomQa(c, topics) ==
  \E t \in topics, d \in DifficultyArgs :
    \E term \in ResolveTopic(t) :
      Enter(c, [ difficulty |-> d, topic |-> t, fn |-> "get_random_qa",
                 limit |-> TopN ], term)

\* search_pair(query_text, limit)
CallSearchPair(c) ==
  \E q \in QueryArgs, l \in 0..MaxLimit :
    Enter(c, [ difficulty |-> "", topic |-> q, fn |-> "search_pair",
               limit |-> l ], q)

Stage(c) ==
  CASE pc[c] \in {"q_exec", "q_fetch"} -> "question"
    [] pc[c] \in {"a_exec", "a_fetch"} -> "answer"
    [] OTHER -> "fallback"

AtExecute(c) == pc[c] \in {"q_exec", "a_exec", "fb_exec"}
AtFetch(c)   == pc[c] \in {"q_fetch", "a_fetch", "fb_fetch"}

\* the result sets the store may produce for the query the call is at, which
\* reads the table as the connection's transaction sees it
ResultSets(c) ==
  LET table == Visible(snapshot, corpus)
  IN IF Stage(c) = "fallback"
     THEN SelectAll(table, Lower(call[c].difficulty))
     ELSE FtsSearch(table, Stage(c), topic[c], call[c].limit)

\* an exception raised by the query the call is at: a field search is
\* skipped by its own handler, the fallback query reaches the outer handler
Raise(c) ==
  /\ failed' = [failed EXCEPT ![c] = @ \cup {Stage(c)}]
  /\ IF Stage(c) = "fallback"
     THEN /\ pc' = [pc EXCEPT ![c] = "done"]
          /\ result' = [result EXCEPT ![c] = OuterExcept(call[c].fn)]
     ELSE /\ pc' = [pc EXCEPT ![c] = AfterFieldExcept(Stage(c))]
          /\ UNCHANGED result
  /\ UNCHANGED << corpus, isolation, snapshot >>
  /\ UNCHANGED << call, topic, results_dict, question_results,
                  answer_results, qa_list >>
  /\ UNCHANGED chatVars

\* variant: the statement removes the rows it has read
AfterStatement_Consume(corp) == {}

\* the table after one of the statements of the two operations: each is a
\* SELECT, and neither operation commits or rolls back
AfterStatement(corp) == corp

\* self.cursor.execute(sql, params) succeeds; the statement begins a
\* transaction if none is open, and nothing here ends it
Execute(c) ==
  /\ AtExecute(c)
  /\ ~cursor.has
  /\ \E rows \in ResultSets(c) : cursor' = [ rows |-> rows, has |-> TRUE ]
  /\ corpus' = AfterStatement(corpus)
  /\ snapshot' = AfterExecute(isolation, snapshot, corpus)
  /\ UNCHANGED isolation
  /\ pc' = [pc EXCEPT ![c] = CASE pc[c] = "q_exec" -> "q_fetch"
                               [] pc[c] = "a_exec" -> "a_fetch"
                               [] OTHER -> "fb_fetch"]
  /\ UNCHANGED << call, topic, results_dict, question_results,
                  answer_results, qa_list, result, failed >>
  /\ UNCHANGED chatVars

\* self.cursor.execute raises: the store is unavailable or times out
StoreFault(c) ==
  /\ AtExecute(c)
  /\ ~cursor.has
  /\ Raise(c)
  /\ UNCHANGED cursor

\* rows = self.cursor.fetchall() and the statements up to the next query
Fetch(c) ==
  /\ AtFetch(c)
  /\ cursor.has
  /\ cursor' = NoResultSet
  /\ LET rows == cursor.rows
         fn   == call[c].fn
     IN CASE pc[c] = "q_fetch" ->
               /\ question_results' = [question_results EXCEPT ![c] = rows]
               /\ results_dict' = [results_dict EXCEPT
                                     ![c] = MergeQuestionRows(@, rows, fn)]
               /\ pc' = [pc EXCEPT ![c] = "a_exec"]
               /\ UNCHANGED << answer_results, qa_list, result >>
          [] pc[c] = "a_fetch" ->
               /\ answer_results' = [answer_results EXCEPT ![c] = rows]
               /\ results_dict' = [results_dict EXCEPT
                                     ![c] = MergeAnswerRows(@, rows, fn)]
               /\ pc' = [pc EXCEPT ![c] = "rank"]
               /\ UNCHANGED << question_results, qa_list, result >>
          [] OTHER ->
               /\ IF rows = <<>>
                  THEN /\ result' = [result EXCEPT ![c] = ReturnNone]
                       /\ pc' = [pc EXCEPT ![c] = "done"]
                       /\ UNCHANGED qa_list
                  ELSE /\ qa_list' = [qa_list EXCEPT
                                        ![c] = FallbackCandidates(rows)]
                       /\ pc' = [pc EXCEPT ![c] = "select"]
                       /\ UNCHANGED result
               /\ UNCHANGED << question_results, answer_results,
                               results_dict >>
  /\ UNCHANGED << corpus, isolation, snapshot >>
  /\ UNCHANGED << call, topic, failed >>
  /\ UNCHANGED chatVars

\* qa_list = list(results_dict.values()); sort; truncate; then search_pair
\* returns qa_list and get_random_qa tests "if not qa_list"
Rank(c) ==
  /\ pc[c] = "rank"
  /\ LET list == RankAndTruncate(results_dict[c], call[c].limit)
     IN /\ qa_list' = [qa_list EXCEPT ![c] = list]
        /\ IF call[c].fn = "search_pair"
           THEN /\ result' = [result EXCEPT ![c] = ReturnList(list)]
                /\ pc' = [pc EXCEPT ![c] = "done"]
           ELSE /\ pc' = [pc EXCEPT ![c] = IF list = <<>> THEN "fb_exec"
                                           ELSE "select"]
                /\ UNCHANGED result
  /\ UNCHANGED << corpus, isolation, snapshot >>
  /\ UNCHANGED << cursor, call, topic, results_dict,
                  question_results, answer_results, failed >>
  /\ UNCHANGED chatVars

\* the difficulty filter, the emptiness test and random.choice
Select(c) ==
  /\ pc[c] = "select"
  /\ pc' = [pc EXCEPT ![c] = "done"]
  /\ LET d == call[c].difficulty
     IN /\ qa_list' = [qa_list EXCEPT ![c] = Filtered(@, d)]
        /\ \E r \in SelectOutcomes(qa_list[c], d) :
             result' = [result EXCEPT ![c] = r]
  /\ UNCHANGED << corpus, isolation, snapshot >>
  /\ UNCHANGED << cursor, call, topic, results_dict,
                  question_results, answer_results, failed >>
  /\ UNCHANGED chatVars

\* the caller takes the returned value; the call's locals are gone
Return(c) ==
  /\ pc[c] = "done"
  /\ pc' = [pc EXCEPT ![c] = "idle"]
  /\ call' = [call EXCEPT ![c] = NoCall]
  /\ topic' = [topic EXCEPT ![c] = ""]
  /\ results_dict' = [results_dict EXCEPT ![c] = <<>>]
  /\ question_results' = [question_results EXCEPT ![c] = <<>>]
  /\ answer_results' = [answer_results EXCEPT ![c] = <<>>]
  /\ qa_list' = [qa_list EXCEPT ![c] = <<>>]
  /\ result' = [result EXCEPT ![c] = Unset]
  /\ failed' = [failed EXCEPT ![c] = {}]
  /\ UNCHANGED << corpus, isolation, snapshot >>
  /\ UNCHANGED << cursor >>
  /\ UNCHANGED chatVars

\* one caller at a time
Next ==
  \/ CallGetRandomQa(1, TopicArgs)
  \/ CallSearchPair(1)
  \/ Execute(1)
  \/ StoreFault(1)
  \/ Fetch(1)
  \/ Rank(1)
  \/ Select(1)
  \/ Return(1)

Spec == Init /\ [][Next]_vars

\* ---------------------------------------------------- concurrent callers
\* tidb_client is one module-level object with one connection and one
\* cursor and no lock: two callers interleave at the cursor's methods.
\* The store itself is healthy here (no StoreFault), and each caller makes
\* one call.

\* execute while a result set is still unread: the connector's
\* handle_unread_result raises InternalError("Unread result found")
UnreadResult(c) ==
  /\ AtExecute(c)
  /\ cursor.has
  /\ Raise(c)
  /\ UNCHANGED cursor

\* execute racing with the other caller past the unread-result check: the
\* cursor's pending result set is replaced
OverwriteResult(c) ==
  /\ AtExecute(c)
  /\ cursor.has
  /\ \E rows \in ResultSets(c) : cursor' = [ rows |-> rows, has |-> TRUE ]
  /\ pc' = [pc EXCEPT ![c] = CASE pc[c] = "q_exec" -> "q_fetch"
                               [] pc[c] = "a_exec" -> "a_fetch"
                               [] OTHER -> "fb_fetch"]
  /\ snapshot' = AfterExecute(isolation, snapshot, corpus)
  /\ UNCHANGED << corpus, isolation >>
  /\ UNCHANGED << call, topic, results_dict, question_results,
                  answer_results, qa_list, result, failed >>
  /\ UNCHANGED chatVars

\* fetchall after the other caller has consumed the result set: the
\* connector raises InterfaceError("No result set to fetch from")
NoResult(c) ==
  /\ AtFetch(c)
  /\ ~cursor.has
  /\ Raise(c)
  /\ UNCHANGED cursor

\* tables of at most one row
SmallCorpora == Corpora(0) \cup Corpora(1)

InitConc == InitWith(SmallCorpora)

NextConc ==
  \E c \in Calls :
    \/ CallGetRandomQa(c, TopicArgs)
    \/ CallSearchPair(c)
    \/ Execute(c)
    \/ UnreadResult(c)
    \/ OverwriteResult(c)
    \/ Fetch(c)
    \/ NoResult(c)
    \/ Rank(c)
    \/ Select(c)

SpecConc == InitConc /\ [][NextConc]_vars

\* ------------------------------------------------------------ properties
Done(c, fn) == pc[c] = "done" /\ call[c].fn = fn

\* the id of the table row a candidate was built from
RecordOf(cand) == cand.question[2]

\* the candidates a single field's rows become when nothing is merged
FieldCandidates(fn, rows, mt) ==
  [ i \in 1..Len(rows) |-> Candidate(fn, rows[i], rows[i]._score, mt) ]

\* C1 (as claimed): every call of get_random_qa made while the corpus holds
\* at least one record returns a question/answer pair, never None (stated
\* here for the calls none of whose queries raised).
C1_NeverEmpty ==
  (Done(1, "get_random_qa") /\ corpus # {} /\ failed[1] = {})
    => (result[1].kind = "list" /\ result[1].value # <<>>)

\* C1 (amended): a call of get_random_qa without a difficulty filter, made
\* while the corpus holds at least one record, returns exactly one
\* question/answer pair unless its fallback query itself raised.
C1_NeverEmptyNoFilter ==
  (Done(1, "get_random_qa") /\ corpus # {} /\ call[1].difficulty = ""
     /\ "fallback" \notin failed[1])
    => (result[1].kind = "list" /\ Len(result[1].value) = 1)

C1_Witness ==
  /\ Done(1, "get_random_qa") /\ corpus # {} /\ call[1].difficulty = ""
  /\ failed[1] = {}
  /\ results_dict[1] = <<>>
  /\ qa_list[1] # <<>> /\ qa_list[1][1].match_type = "query"
  /\ result[1].kind = "list"

\* C2: no two candidates of a fused list (results_dict, and the qa_list
\* made from it, in get_random_qa and in search_pair) come from the same
\* record.
C2_NoDuplicateIds ==
  \A c \in Calls :
    /\ \A i, j \in 1..Len(results_dict[c]) :
         i # j => results_dict[c][i].key # results_dict[c][j].key
    /\ \A i, j \in 1..Len(qa_list[c]) :
         i # j => RecordOf(qa_list[c][i]) # RecordOf(qa_list[c][j])

C2_Witness ==
  /\ pc[1] \in {"select", "done"}
  /\ Len(question_results[1]) = 2 /\ Len(answer_results[1]) = 2
  /\ Len(results_dict[1]) = 2 /\ Len(qa_list[1]) = 2
  /\ \A i \in 1..2 : results_dict[1][i].val.match_type = "both"

\* C3 (as claimed): in the output of search_pair, the candidate of every
\* record that matches the query in both fields has match_type "both" and
\* a score >= max(questionScore, answerScore).
C3_BothMatched ==
  (Done(1, "search_pair") /\ failed[1] = {})
    => \A i \in 1..Len(result[1].value) :
         \A r \in corpus :
           ( r.id = RecordOf(result[1].value[i])
             /\ FieldScore(r, "question", topic[1]) > 0
             /\ FieldScore(r, "answer", topic[1]) > 0 )
           => ( result[1].value[i].match_type = "both"
                /\ result[1].value[i].score
                     >= Double(Max(FieldScore(r, "question", topic[1]),
                                   FieldScore(r, "answer", topic[1]))) )

\* C3 (amended): in the output of search_pair, the candidate of every
\* record that is in both the question-field result set and the
\* answer-field result set (each limited to the top `limit` rows) has
\* match_type "both" and a score >= max(questionScore, answerScore).
C3_BothReturned ==
  Done(1, "search_pair")
    => \A i \in 1..Len(result[1].value) :
         \A q \in 1..Len(question_results[1]) :
           \A a \in 1..Len(answer_results[1]) :
             ( question_results[1][q].id = RecordOf(result[1].value[i])
               /\ answer_results[1][a].id = RecordOf(result[1].value[i]) )
             => ( result[1].value[i].match_type = "both"
                  /\ result[1].value[i].score
                       >= Max(question_results[1][q]._score,
                              answer_results[1][a]._score) )

C3_Witness ==
  /\ Done(1, "search_pair")
  /\ \E i \in 1..Len(result[1].value) :
       /\ result[1].value[i].match_type = "both"
       /\ \E q \in 1..Len(question_results[1]) :
            question_results[1][q].id = RecordOf(result[1].value[i])
       /\ \E a \in 1..Len(answer_results[1]) :
            answer_results[1][a].id = RecordOf(result[1].value[i])

\* C4: search_pair(query, limit = L) returns at most L entries.
C4_AtMostLimit ==
  Done(1, "search_pair")
    => (result[1].kind = "list" /\ Len(result[1].value) <= call[1].limit)

\* each field returned L distinct records, 2L candidates were cut to L
C4_Witness ==
  /\ Done(1, "search_pair") /\ call[1].limit >= 1
  /\ Len(question_results[1]) = call[1].limit
  /\ Len(answer_results[1]) = call[1].limit
  /\ Len(results_dict[1]) = 2 * call[1].limit
  /\ Len(result[1].value) = call[1].limit

\* C5: the list search_pair returns is ordered by non-increasing score,
\* the score being the one after the multi-field bonus.
C5_SortedByScore ==
  Done(1, "search_pair")
    => \A i, j \in 1..Len(result[1].value) :
         i < j => result[1].value[i].score >= result[1].value[j].score

\* the bonus moved the second question hit in front of the first
C5_Witness ==
  /\ Done(1, "search_pair") /\ Len(result[1].value) = 2
  /\ Len(question_results[1]) = 2
  /\ RecordOf(result[1].value[1]) = question_results[1][2].id
  /\ result[1].value[1].match_type = "both"
  /\ result[1].value[1].score > result[1].value[2].score
  /\ question_results[1][1]._score > question_results[1][2]._score

\* C6: when exactly one field search raises, the call still returns, and
\* what it returns is made of the other field's result set alone: for
\* search_pair the rows of a result set the store gives for that field, in
\* order, each tagged with that field and carrying its field score; for
\* get_random_qa without a difficulty filter the question and answer of one
\* of those rows when there are any.
C6_PartialFailure ==
  /\ (Done(1, "search_pair") /\ failed[1] = {"question"})
       => \E rows \in FtsSearch(corpus, "answer", topic[1], call[1].limit) :
            result[1] = ReturnList(FieldCandidates("search_pair", rows, "answer"))
  /\ (Done(1, "search_pair") /\ failed[1] = {"answer"})
       => \E rows \in FtsSearch(corpus, "question", topic[1], call[1].limit) :
            result[1] = ReturnList(FieldCandidates("search_pair", rows, "question"))
  /\ \A f \in {"question", "answer"} :
       ( Done(1, "get_random_qa") /\ call[1].difficulty = ""
         /\ failed[1] = {"question", "answer"} \ {f} )
       => \E rows \in FtsSearch(corpus, f, topic[1], TopN) :
            \/ rows = <<>>
            \/ \E i \in 1..Len(rows) : result[1] = ReturnList(Chosen(rows[i]))

\* the question search failed, the answer search returned one hit
C6_Witness ==
  /\ Done(1, "search_pair") /\ failed[1] = {"question"}
  /\ Len(answer_results[1]) = 1
  /\ Len(result[1].value) = 1
  /\ result[1].value[1].match_type = "answer"
  /\ RecordOf(result[1].value[1]) = answer_results[1][1].id

\* C7 (as claimed): when both field searches and the fallback query of a
\* get_random_qa call raised, the caller gets an outcome other than the one
\* it gets when the queries succeed and nothing is found (None).
C7_FailureDistinct ==
  (Done(1, "get_random_qa")
     /\ failed[1] = {"question", "answer", "fallback"})
    => result[1] # ReturnNone

\* C8: with an empty corpus get_random_qa returns None and raises nothing
\* to its caller.
C8_EmptyCorpus ==
  (Done(1, "get_random_qa") /\ corpus = {}) => result[1] = ReturnNone

C8_Witness ==
  /\ Done(1, "get_random_qa") /\ corpus = {}
  /\ call[1].topic = "networking"
  /\ failed[1] = {}
  /\ question_results[1] = <<>> /\ answer_results[1] = <<>>
  /\ result[1] = ReturnNone

\* C9 (as claimed): search_pair with an empty query text issues no query:
\* it never gets past its first statement except to return InvalidArgument.
C9_EmptyQueryRejected ==
  \A c \in Calls :
    (call[c].fn = "search_pair" /\ call[c].topic = "")
      => /\ pc[c] \in {"q_exec", "done"}
         /\ failed[c] = {}
         /\ pc[c] = "done" => result[c].kind = "InvalidArgument"

\* the values a call returns when it runs alone against a healthy store
AloneFused(fn, term, lim) ==
  { RankAndTruncate(
      MergeAnswerRows(MergeQuestionRows(<<>>, qr, fn), ar, fn), lim) :
      qr \in FtsSearch(corpus, "question", term, lim),
      ar \in FtsSearch(corpus, "answer", term, lim) }

AloneResults(args, term) ==
  IF args.fn = "search_pair"
  THEN { ReturnList(l) : l \in AloneFused(args.fn, term, args.limit) }
  ELSE UNION
         { IF l # <<>>
           THEN SelectOutcomes(l, args.difficulty)
           ELSE UNION { IF rows = <<>>
                        THEN { ReturnNone }
                        ELSE SelectOutcomes(FallbackCandidates(rows),
                                            args.difficulty) :
                        rows \in SelectAll(corpus, Lower(args.difficulty)) } :
           l \in AloneFused(args.fn, term, args.limit) }

\* C10 (as claimed): under any interleaving of two calls, what each call
\* returns is a value it could have returned running alone against the
\* same corpus.
C10_Independent ==
  \A c \in Calls :
    pc[c] = "done" => result[c] \in AloneResults(call[c], topic[c])

\* ------------------------------------------------- an unresponsive store
\* self.cursor.execute on a query the store never answers.  The connection
\* is opened without connection_timeout or any read timeout and the call
\* sets none, so execute never returns and never raises: the call stays
\* inside it.
Hang(c) ==
  /\ AtExecute(c)
  /\ ~cursor.has
  /\ pc' = [pc EXCEPT ![c] = "blocked"]
  /\ UNCHANGED << corpus, isolation, snapshot >>
  /\ UNCHANGED << cursor, call, topic, results_dict,
                  question_results, answer_results, qa_list, result, failed >>
  /\ UNCHANGED chatVars

NextLive ==
  \/ Next
  \/ Hang(1)

\* every step the program can take is eventually taken
SpecLive == InitWith(SmallCorpora) /\ [][NextLive]_vars /\ WF_vars(NextLive)

\* C11 (as claimed): every retrieval call eventually returns, also when a
\* field search never responds: a call that has started is never left
\* without a next step (a timeout would be one).
C11_NeverBlocked == pc[1] # "idle" => ENABLED NextLive

\* the same as a liveness property of SpecLive
C11_EventuallyReturns == (pc[1] = "q_exec") ~> (pc[1] = "done")

\* --------------------------------------------- the same search, twice
\* the corpora of one difficulty: search_pair does not read the column
PlainRecord == { b \in QARecord : b.difficulty = "beginner" }

PlainCorpora(n) == Tables(PlainRecord, n)

\* search_pair is called again with the arguments of the call that returned
CallAgain(c) ==
  /\ pc[1] = "done"
  /\ call[1].fn = "search_pair"
  /\ Enter(c, call[1], topic[1])

NextTwice ==
  \/ CallSearchPair(1)
  \/ CallAgain(2)
  \/ \E c \in Calls : Execute(c)
  \/ \E c \in Calls : StoreFault(c)
  \/ \E c \in Calls : Fetch(c)
  \/ \E c \in Calls : Rank(c)

InitTwice == \E n \in 0..NumRecs : InitWith(PlainCorpora(n))

SpecTwice == InitTwice /\ [][NextTwice]_vars

\* the records of a returned list
RecordSet(res) == { RecordOf(res.value[i]) : i \in 1..Len(res.value) }

BothReturned == Done(1, "search_pair") /\ Done(2, "search_pair")

\* no two records matching the term in a field have the same score there
NoTies(term) ==
  \A field \in {"question", "answer"} :
    \A r1, r2 \in corpus :
      ( /\ r1 # r2
        /\ FieldScore(r1, field, term) > 0
        /\ FieldScore(r2, field, term) > 0 )
        => FieldScore(r1, field, term) # FieldScore(r2, field, term)

\* C12 (as claimed): two search_pair calls with the same query text and
\* limit on an unchanged corpus return the same set of records (stated for
\* calls none of whose queries raised).
C12_SameRecords ==
  (BothReturned /\ failed[1] = {} /\ failed[2] = {})
    => RecordSet(result[1]) = RecordSet(result[2])

\* C12 (amended): two search_pair calls with the same query text and limit
\* on an unchanged corpus return the same set of records when no field
\* search of either call raises and no two records matching the query in a
\* field have equal scores in that field.
C12_SameRecordsNoTies ==
  ( /\ BothReturned
    /\ failed[1] = {} /\ failed[2] = {}
    /\ NoTies(topic[1]) )
    => RecordSet(result[1]) = RecordSet(result[2])

\* both calls returned a proper part of the records that match, untied
C12_Witness ==
  /\ BothReturned
  /\ failed[1] = {} /\ failed[2] = {}
  /\ NoTies(topic[1])
  /\ Cardinality(RecordSet(result[2])) = 1
  /\ Cardinality({ r \in corpus :
                     FieldScore(r, "question", topic[1]) > 0 }) = 2

\* C13: no step of get_random_qa or search_pair changes the corpus, whether
\* the call succeeds, falls back or fails.
C13_CorpusUnchanged == [][corpus' = corpus]_vars

\* a call on a non-empty corpus whose question search failed has returned
C13_Witness ==
  /\ Done(1, "get_random_qa")
  /\ corpus # {}
  /\ failed[1] = {"question"}
  /\ result[1].kind = "list"

\* C14: a value returned by get_random_qa holds one entry with exactly the
\* keys question and answer (no id, score, match_type, topic, type or
\* difficulty), both taken from one candidate of the list it chose from,
\* which is one row of the corpus.
C14_OnlyQuestionAnswer ==
  (Done(1, "get_random_qa") /\ result[1].kind = "list")
    => /\ Len(result[1].value) = 1
       /\ DOMAIN result[1].value[1] = {"question", "answer"}
       /\ \E i \in 1..Len(qa_list[1]) :
            /\ result[1].value[1].question = qa_list[1][i].question
            /\ result[1].value[1].answer = qa_list[1][i].answer
       /\ \E r \in corpus :
            /\ result[1].value[1].question = BaseRow(r).question
            /\ result[1].value[1].answer = BaseRow(r).answer

\* a record was returned out of two fused candidates
C14_Witness ==
  /\ Done(1, "get_random_qa")
  /\ result[1].kind = "list"
  /\ Len(qa_list[1]) = 2
  /\ Len(results_dict[1]) = 2
  /\ RecordOf(result[1].value[1]) = 2

\* ------------------------------------------- the topic left unset
\* the topic arguments, the unset one included
AllTopicArgs == TopicArgs \cup {""}

NextTopic ==
  \/ CallGetRandomQa(1, AllTopicArgs)
  \/ Execute(1)
  \/ StoreFault(1)
  \/ Fetch(1)
  \/ Rank(1)
  \/ Select(1)
  \/ Return(1)

SpecTopic == InitWith(SmallCorpora) /\ [][NextTopic]_vars

Vocabulary == { KUBERNETES_TOPICS[k] : k \in 1..Len(KUBERNETES_TOPICS) }

\* C15: the vocabulary has 30 distinct entries; a get_random_qa call with an
\* empty or unset topic searches with a member of the vocabulary, and every
\* member can be the one drawn; a call with a non-empty topic searches with
\* exactly that topic.
C15_TopicResolution ==
  /\ Len(KUBERNETES_TOPICS) = 30
  /\ Cardinality(Vocabulary) = 30
  /\ (pc[1] # "idle" /\ call[1].fn = "get_random_qa")
       => IF call[1].topic = ""
          THEN topic[1] \in Vocabulary
          ELSE topic[1] = call[1].topic
  /\ pc[1] = "idle"
       => \A v \in Vocabulary :
            ENABLED (CallGetRandomQa(1, {""}) /\ topic'[1] = v)

\* a call with the topic unset is searching with the last vocabulary entry
C15_Witness ==
  /\ pc[1] = "q_fetch"
  /\ call[1].fn = "get_random_qa"
  /\ call[1].topic = ""
  /\ topic[1] = KUBERNETES_TOPICS[30]

\* ------------------------------- the scenario of scores 0.9, 0.7 and 0.5
\* two records with question scores 0.9 and 0.7, one of them matching the
\* answer field with 0.5 (scores in tenths)
ScenarioCorpora ==
  { { [ qs |-> 9, as |-> 5, difficulty |-> "beginner", id |-> 1 ],
      [ qs |-> 7, as |-> 0, difficulty |-> "beginner", id |-> 2 ] },
    { [ qs |-> 9, as |-> 0, difficulty |-> "beginner", id |-> 1 ],
      [ qs |-> 7, as |-> 5, difficulty |-> "beginner", id |-> 2 ] } }

SpecScenario == InitWith(ScenarioCorpora) /\ [][Next]_vars

\* the position of a record in a returned list
PositionOf(res, id) ==
  CHOOSE i \in 1..Len(res.value) : RecordOf(res.value[i]) = id

\* the record of the corpus that matches the answer field, and the other one
DoubleMatched == CHOOSE r \in corpus : r.as > 0
SingleMatched == CHOOSE r \in corpus : r.as = 0

\* search_pair has returned both records, no query having raised
ScenarioReturned ==
  /\ Done(1, "search_pair")
  /\ topic[1] = MatchTerm
  /\ call[1].limit >= 2
  /\ failed[1] = {}

\* C16 (as claimed): in the scenario the double-matched record's fused score
\* is its question score plus 0.5 plus 0.2 (1.6 or 1.4), and it is ranked
\* above the single-match record.
C16_ScoresAddUp ==
  ScenarioReturned
    => /\ result[1].value[PositionOf(result[1], DoubleMatched.id)].score
            = Double(DoubleMatched.qs + DoubleMatched.as + Bonus)
       /\ PositionOf(result[1], DoubleMatched.id)
            < PositionOf(result[1], SingleMatched.id)

\* C16 (amended): in the scenario the double-matched record's fused score is
\* the larger of its question score and 0.5, plus 0.2 in double arithmetic:
\* 1.1 for the 0.9 record, which is then ranked above the single-match 0.7
\* record, and 0.8999999999999999 (the double below 0.9) for the 0.7 record,
\* which is then ranked below the single-match 0.9 record.
C16_MaxPlusBonus ==
  ScenarioReturned
    => LET dpos == PositionOf(result[1], DoubleMatched.id)
           spos == PositionOf(result[1], SingleMatched.id)
       IN /\ Len(result[1].value) = 2
          /\ result[1].value[dpos].score
               = AddBonus(Double(Max(DoubleMatched.qs, DoubleMatched.as)))
          /\ result[1].value[spos].score = Double(SingleMatched.qs)
          /\ DoubleMatched.qs = 9
               => result[1].value[dpos].score = Double(11) /\ dpos < spos
          /\ DoubleMatched.qs = 7
               => /\ result[1].value[dpos].score = Double(9) - 1
                  /\ result[1].value[dpos].score
                       < result[1].value[spos].score
                  /\ spos < dpos

\* the 0.7 record is the double-matched one and both were returned
C16_Witness ==
  /\ ScenarioReturned
  /\ DoubleMatched.qs = 7
  /\ Len(result[1].value) = 2
  /\ result[1].value[2].match_type = "both"

\* the fused list of a get_random_qa call (it is kept until the call returns)
FusedList(c) == RankAndTruncate(results_dict[c], TopN)

\* the row of the corpus a returned question belongs to
RowOf(qa) == CHOOSE r \in corpus : r.id = RecordOf(qa)

\* C17 (as claimed): when get_random_qa is given a difficulty and the fused
\* list is non-empty but holds no record of that difficulty, the fallback
\* query is run and a record of that difficulty is returned if the corpus
\* has one.
C17_FilterFallsBack ==
  ( /\ Done(1, "get_random_qa")
    /\ failed[1] = {}
    /\ call[1].difficulty # ""
    /\ FusedList(1) # <<>>
    /\ \A i \in 1..Len(FusedList(1)) :
         /\ FusedList(1)[i].difficulty # NULL
         /\ Lower(FusedList(1)[i].difficulty) # Lower(call[1].difficulty)
    /\ \E r \in corpus : r.difficulty = Lower(call[1].difficulty) )
    => /\ result[1].kind = "list"
       /\ RowOf(result[1].value[1]).difficulty = Lower(call[1].difficulty)

\* both field searches of the call are over: results_dict is complete
FusionDone(c) ==
  /\ call[c].fn # ""
  /\ pc[c] \in {"rank", "fb_exec", "fb_fetch", "select", "done"}

InRows(rows, id) == \E i \in 1..Len(rows) : rows[i].id = id

ScoreIn(rows, id) == rows[CHOOSE i \in 1..Len(rows) : rows[i].id = id]._score

\* C18: once both field searches are over, a record found in both result
\* sets has the score max(question score, answer score) + 0.2 (the value of
\* that expression in the program's double arithmetic), the bonus counted
\* once, and a record found in one result set has that field's score;
\* search_pair returns the candidates with these scores.
C18_ExactFusedScore ==
  FusionDone(1)
    => /\ \A i \in 1..Len(results_dict[1]) :
            LET id == results_dict[1][i].key
                sc == results_dict[1][i].val.score
                q  == InRows(question_results[1], id)
                a  == InRows(answer_results[1], id)
            IN /\ (q /\ a) =>
                    sc = AddBonus(Max(ScoreIn(question_results[1], id),
                                      ScoreIn(answer_results[1], id)))
               /\ (q /\ ~a) => sc = ScoreIn(question_results[1], id)
               /\ (~q /\ a) => sc = ScoreIn(answer_results[1], id)
       /\ Done(1, "search_pair")
            => \A j \in 1..Len(result[1].value) :
                 \E i \in 1..Len(results_dict[1]) :
                    results_dict[1][i].val = result[1].value[j]

\* a record found in both fields whose answer score is the larger one, next
\* to a record found in one field
C18_Witness ==
  /\ FusionDone(1)
  /\ Len(results_dict[1]) = 2
  /\ \E i \in 1..2 :
       LET id == results_dict[1][i].key
       IN /\ InRows(question_results[1], id)
          /\ InRows(answer_results[1], id)
          /\ ScoreIn(answer_results[1], id) > ScoreIn(question_results[1], id)
          /\ results_dict[1][i].val.score
               = AddBonus(ScoreIn(answer_results[1], id))
  /\ \E i \in 1..2 : ~InRows(answer_results[1], results_dict[1][i].key)

\* C19: every fused candidate has match_type "question" iff its record is in
\* the question result set only, "answer" iff it is in the answer result set
\* only, and "both" iff it is in both; this holds of the candidates
\* search_pair returns.
C19_MatchTypeByOrigin ==
  FusionDone(1)
    => /\ \A i \in 1..Len(results_dict[1]) :
            LET id == results_dict[1][i].key
                mt == results_dict[1][i].val.match_type
                q  == InRows(question_results[1], id)
                a  == InRows(answer_results[1], id)
            IN /\ mt = "question" <=> (q /\ ~a)
               /\ mt = "answer" <=> (~q /\ a)
               /\ mt = "both" <=> (q /\ a)
       /\ Done(1, "search_pair")
            => \A j \in 1..Len(result[1].value) :
                 LET id == RecordOf(result[1].value[j])
                     mt == result[1].value[j].match_type
                     q  == InRows(question_results[1], id)
                     a  == InRows(answer_results[1], id)
                 IN /\ mt = "question" <=> (q /\ ~a)
                    /\ mt = "answer" <=> (~q /\ a)
                    /\ mt = "both" <=> (q /\ a)

\* search_pair has returned a candidate of both fields and one of the answer
\* field
C19_Witness ==
  /\ Done(1, "search_pair")
  /\ Len(result[1].value) = 2
  /\ { result[1].value[j].match_type : j \in 1..2 } = {"both", "answer"}

\* the call has taken the rows of the fallback query
TookFallback(c) ==
  /\ call[c].fn = "get_random_qa"
  /\ pc[c] \in {"select", "done"}
  /\ FusedList(c) = <<>>
  /\ "fallback" \notin failed[c]
  /\ qa_list[c] # <<>> \/ result[c].kind = "list"

\* the fallback query is being run, has been run or has raised
AtFallback(c) ==
  \/ pc[c] \in {"fb_exec", "fb_fetch"}
  \/ "fallback" \in failed[c]
  \/ \E i \in 1..Len(qa_list[c]) : qa_list[c][i].match_type = "query"

\* C20: every candidate built from the fallback query has the
\* score 1.0 and the match type "fallback", and the fallback query runs only
\* when the fused list is empty.
C20_FallbackTagged ==
  /\ (TookFallback(1) /\ pc[1] = "select")
       => \A i \in 1..Len(qa_list[1]) :
            /\ qa_list[1][i].score = Double(FallbackScore)
            /\ qa_list[1][i].match_type = "fallback"
  /\ AtFallback(1) => FusedList(1) = <<>>

\* --------------------------------------- a corpus larger than the top 5
BigRecs == TopN + 1

\* corpora of BigRecs records of alternating difficulty: either every
\* record matches the term in both fields, with distinct scores that rise
\* with the id in the question and fall with it in the answer, or none does
BigCorpora ==
  { { [ qs |-> IF m THEN i ELSE 0, as |-> IF m THEN BigRecs + 1 - i ELSE 0,
        difficulty |-> IF i % 2 = 0 THEN "beginner" ELSE "advanced",
        id |-> i ] : i \in 1..BigRecs } : m \in BOOLEAN }

NextPick ==
  \/ CallGetRandomQa(1, TopicArgs)
  \/ Execute(1)
  \/ StoreFault(1)
  \/ Fetch(1)
  \/ Rank(1)
  \/ Select(1)
  \/ Return(1)

SpecPick == InitWith(BigCorpora) /\ [][NextPick]_vars

\* get_random_qa holds the list random.choice picks from (before or after
\* the difficulty filter)
AtPick(c) ==
  /\ call[c].fn = "get_random_qa"
  /\ pc[c] \in {"select", "done"}
  /\ result[c].kind \in {"unset", "list"}

\* C21 (as claimed): the list get_random_qa picks from has at most 5
\* entries, on the search path and on the fallback path.
C21_PickFromFive == AtPick(1) => Len(qa_list[1]) <= TopN

\* C21 (amended): on the search path the list get_random_qa picks from has
\* at most 5 entries; on the fallback path it holds every row the fallback
\* query returned, which can be more than 5.
C21_PickFromFiveOnSearch ==
  AtPick(1)
    => IF FusedList(1) # <<>>
       THEN Len(qa_list[1]) <= TopN
       ELSE pc[1] = "select"
              => \E rows \in SelectAll(corpus, Lower(call[1].difficulty)) :
                   Len(qa_list[1]) = Len(rows)

\* the fallback query has given more than 5 candidates to pick from
C21_Witness ==
  /\ AtPick(1)
  /\ pc[1] = "select"
  /\ FusedList(1) = <<>>
  /\ Len(qa_list[1]) = BigRecs

\* C22: when get_random_qa is called with a difficulty and returns a record,
\* the record's stored difficulty equals the requested one ignoring letter
\* case, whether the record came from the fused list or from the fallback
\* query.
C22_DifficultyMatches ==
  ( /\ Done(1, "get_random_qa")
    /\ call[1].difficulty # ""
    /\ result[1].kind = "list" )
    => /\ RowOf(result[1].value[1]).difficulty # NULL
       /\ Lower(RowOf(result[1].value[1]).difficulty)
            = Lower(call[1].difficulty)

\* a record of the requested difficulty was returned from a fused list that
\* also held a record of another difficulty
C22_Witness ==
  /\ Done(1, "get_random_qa")
  /\ call[1].difficulty = "Beginner"
  /\ result[1].kind = "list"
  /\ Len(results_dict[1]) = 2
  /\ \E i \in 1..2 : results_dict[1][i].val.difficulty = "advanced"

\* C25 (as claimed): when get_random_qa is given a difficulty and a fused
\* candidate has no difficulty while another fused candidate has the
\* requested one, the call returns a record of that difficulty.
C25_UnsetDifficultySkipped ==
  ( /\ Done(1, "get_random_qa")
    /\ failed[1] = {}
    /\ call[1].difficulty # ""
    /\ \E i \in 1..Len(FusedList(1)) : FusedList(1)[i].difficulty = NULL
    /\ \E i \in 1..Len(FusedList(1)) :
         /\ FusedList(1)[i].difficulty # NULL
         /\ Lower(FusedList(1)[i].difficulty) = Lower(call[1].difficulty) )
    => /\ result[1].kind = "list"
       /\ RowOf(result[1].value[1]).difficulty = Lower(call[1].difficulty)

\* the records of the list search_pair returned
Returned(c) == RecordSet(result[c])

\* C23: in the list search_pair returns, a record found in both result sets
\* whose larger field score is m comes before every single-field candidate
\* whose score is below m + 0.2, be that the decimal sum or the double the
\* program computes (and is in the list whenever such a candidate is).
C23_BothBeforeSimilar ==
  Done(1, "search_pair")
    => \A i \in 1..Len(results_dict[1]) :
         LET id == results_dict[1][i].key
         IN ( /\ InRows(question_results[1], id)
              /\ InRows(answer_results[1], id) )
              => LET m == Max(ScoreIn(question_results[1], id),
                              ScoreIn(answer_results[1], id))
                 IN \A j \in 1..Len(result[1].value) :
                      ( /\ result[1].value[j].match_type # "both"
                        /\ \/ result[1].value[j].score < m + Double(Bonus)
                           \/ result[1].value[j].score < AddBonus(m) )
                        => /\ id \in Returned(1)
                           /\ PositionOf(result[1], id) < j

\* a record of both fields is listed before a single-field candidate whose
\* score equals the record's larger field score
C23_Witness ==
  /\ Done(1, "search_pair")
  /\ Len(result[1].value) = 2
  /\ result[1].value[1].match_type = "both"
  /\ result[1].value[2].match_type = "question"
  /\ AddBonus(result[1].value[2].score) = result[1].value[1].score

\* the combined score of a corpus record for a term, by the fusion rule
Combined(r, term) ==
  LET q == FieldScore(r, "question", term)
      a == FieldScore(r, "answer", term)
  IN IF q > 0 /\ a > 0 THEN AddBonus(Double(Max(q, a)))
     ELSE Double(Max(q, a))

\* the corpus records that match a term in either field
Matching(term) ==
  { r \in corpus : FieldScore(r, "question", term) > 0
                     \/ FieldScore(r, "answer", term) > 0 }

\* C24 (as claimed): search_pair(query, L) returns the L records of highest
\* combined score among all corpus records matching the query in either
\* field: no omitted matching record has a higher combined score than a
\* returned one (stated for calls none of whose queries raised).
C24_GlobalTop ==
  (Done(1, "search_pair") /\ failed[1] = {})
    => /\ Len(result[1].value)
            = Min(call[1].limit, Cardinality(Matching(topic[1])))
       /\ \A r \in Matching(topic[1]), x \in Matching(topic[1]) :
            (r.id \notin Returned(1) /\ x.id \in Returned(1))
              => Combined(r, topic[1]) <= Combined(x, topic[1])

\* C24 (amended): search_pair(query, L) returns the L candidates of highest
\* fused score among the candidates fused from the top-L rows of each field
\* search (all of them when there are fewer than L): no omitted fused
\* candidate has a higher fused score than a returned one.
C24_TopOfFused ==
  Done(1, "search_pair")
    => /\ Len(result[1].value) = Min(call[1].limit, Len(results_dict[1]))
       /\ \A j \in 1..Len(result[1].value) :
            \E i \in 1..Len(results_dict[1]) :
               results_dict[1][i].val = result[1].value[j]
       /\ \A i \in 1..Len(results_dict[1]), j \in 1..Len(result[1].value) :
            results_dict[1][i].key \notin Returned(1)
              => results_dict[1][i].val.score <= result[1].value[j].score

\* one of two fused candidates was returned, the other one scoring less
C24_Witness ==
  /\ Done(1, "search_pair")
  /\ call[1].limit = 1
  /\ Len(results_dict[1]) = 2
  /\ \E i \in 1..2 :
       /\ results_dict[1][i].key \notin Returned(1)
       /\ results_dict[1][i].val.score < result[1].value[1].score

\* ----------------------------------- get_random_qa over a list of dicts
MaxList == 2

\* a key the dict does not have
Absent == "absent"

\* dict.get(key, default)
Get(qa, key, default) == IF key \in DOMAIN qa THEN qa[key] ELSE default

\* the dict of a list position: 'difficulty' and 'topic' are a string, None
\* (NULL) or missing
Entry(i, d, t) ==
  CASE d = Absent /\ t = Absent -> [ question |-> <<"Q", i>> ]
    [] d = Absent /\ t # Absent -> [ question |-> <<"Q", i>>, topic |-> t ]
    [] d # Absent /\ t = Absent -> [ difficulty |-> d, question |-> <<"Q", i>> ]
    [] OTHER -> [ difficulty |-> d, question |-> <<"Q", i>>, topic |-> t ]

EntryDifficulties == { Absent, NULL, "beginner", "Advanced" }
EntryTopics       == { Absent, NULL, "Pods", "rbac" }

\* the lists of at most MaxList dicts
QaLists ==
  UNION { { [ i \in 1..n |-> Entry(i, ds[i], ts[i]) ] :
              ds \in [1..n -> EntryDifficulties],
              ts \in [1..n -> EntryTopics] } : n \in 0..MaxList }

ReturnDict(qa) == [ kind |-> "dict", value |-> << qa >> ]
Raises         == [ kind |-> "raise", value |-> <<>> ]

\* [qa for qa in list if qa.get(key, '').lower() == wanted.lower()]:
\* .lower() raises AttributeError when the value is None
GetRaises(list, key) ==
  \E i \in 1..Len(list) : Get(list[i], key, "") = NULL

KeyFilter(list, key, wanted) ==
  LET Keep(qa) == Lower(Get(qa, key, "")) = Lower(wanted)
  IN  SelectSeq(list, Keep)

\* utils/ques_select.py get_random_qa(qa_list, difficulty, topic): the
\* values a call may return (random.choice) or the exception it raises
ListGetRandomQa(list, d, t) ==
  IF list = <<>> THEN { ReturnNone }
  ELSE IF d # "" /\ GetRaises(list, "difficulty") THEN { Raises }
  ELSE LET byDifficulty == IF d # ""
                           THEN KeyFilter(list, "difficulty", d)
                           ELSE list
       IN IF t # "" /\ GetRaises(byDifficulty, "topic") THEN { Raises }
          ELSE LET filtered == IF t # ""
                               THEN KeyFilter(byDifficulty, "topic", t)
                               ELSE byDifficulty
               IN IF filtered = <<>> THEN { ReturnNone }
                  ELSE { ReturnDict(filtered[i]) : i \in 1..Len(filtered) }

\* src/ques_select.py get_random_qa(qa_list)
PlainGetRandomQa(list) ==
  IF list = <<>> THEN { ReturnNone }
  ELSE { ReturnDict(list[i]) : i \in 1..Len(list) }

ListDifficultyArgs == { "", "Beginner", "advanced" }
ListTopicArgs      == { "", "pods" }

\* a call about to be made with a list and filters
InitList ==
  /\ Untouched
  /\ users = {}
  /\ session = "none"
  /\ context = <<>>
  /\ chat = [c \in Calls |-> NoChat]
  /\ pc = [c \in Calls |-> "idle"]
  /\ result = [c \in Calls |-> Unset]
  /\ \E list \in QaLists : qa_list = [c \in Calls |-> IF c = 1 THEN list ELSE <<>>]
  /\ \E d \in ListDifficultyArgs, t \in ListTopicArgs,
        fn \in {"list_get_random_qa", "plain_get_random_qa"} :
       /\ fn = "plain_get_random_qa" => (d = "" /\ t = "")
       /\ call = [c \in Calls |->
                    IF c = 1
                    THEN [ difficulty |-> d, topic |-> t, fn |-> fn,
                           limit |-> 0 ]
                    ELSE NoCall]

CallListGetRandomQa(c) ==
  /\ pc[c] = "idle"
  /\ call[c].fn = "list_get_random_qa"
  /\ \E r \in ListGetRandomQa(qa_list[c], call[c].difficulty, call[c].topic) :
       result' = [result EXCEPT ![c] = r]
  /\ pc' = [pc EXCEPT ![c] = "done"]
  /\ UNCHANGED << corpus, isolation, snapshot >>
  /\ UNCHANGED << cursor, call, topic, results_dict,
                  question_results, answer_results, qa_list, failed >>
  /\ UNCHANGED chatVars

CallPlainGetRandomQa(c) ==
  /\ pc[c] = "idle"
  /\ call[c].fn = "plain_get_random_qa"
  /\ \E r \in PlainGetRandomQa(qa_list[c]) :
       result' = [result EXCEPT ![c] = r]
  /\ pc' = [pc EXCEPT ![c] = "done"]
  /\ UNCHANGED << corpus, isolation, snapshot >>
  /\ UNCHANGED << cursor, call, topic, results_dict,
                  question_results, answer_results, qa_list, failed >>
  /\ UNCHANGED chatVars

NextList ==
  \/ CallListGetRandomQa(1)
  \/ CallPlainGetRandomQa(1)

SpecList == InitList /\ [][NextList]_vars

\* a dict satisfies the supplied filters: case-insensitive equality on
\* difficulty and on topic, a filter not supplied matching everything
Satisfies(qa, d, t) ==
  /\ d # "" => ( /\ Get(qa, "difficulty", "") # NULL
                 /\ Lower(Get(qa, "difficulty", "")) = Lower(d) )
  /\ t # "" => ( /\ Get(qa, "topic", "") # NULL
                 /\ Lower(Get(qa, "topic", "")) = Lower(t) )

\* C26 (as claimed): the list-based get_random_qa returns None exactly when
\* no entry of qa_list satisfies every supplied filter, and otherwise
\* returns an entry of qa_list that satisfies them all.
C26_NoneIffNoMatch ==
  (pc[1] = "done" /\ call[1].fn \in {"list_get_random_qa",
                                     "plain_get_random_qa"})
    => LET M == { i \in 1..Len(qa_list[1]) :
                    Satisfies(qa_list[1][i], call[1].difficulty,
                              call[1].topic) }
       IN /\ result[1].kind = "None" <=> M = {}
          /\ M # {} => /\ result[1].kind = "dict"
                       /\ \E i \in M : result[1].value[1] = qa_list[1][i]

\* ------------------------------------------------------- the chat layer
MaxToolCalls == 2     \* tool calls in one assistant message
MaxContext   == 2     \* entries of a stored context when a call starts

\* the messages of a conversation
SystemMessage       == [ role |-> "system" ]
UserMessage(q)      == [ role |-> "user", content |-> q ]
AssistantMessage(r) == [ role |-> "assistant", content |-> r ]
ToolCallMessage(tc) == [ role |-> "assistant", tool_calls |-> tc ]
ToolMessage(id)     == [ role |-> "tool", tool_call_id |-> id ]

\* the ids of the n tool calls the model asks for in call c's turn
ToolCallIds(c, n) == [ k \in 1..n |-> << c, k >> ]

\* a text caller c sends (0: the user of an earlier turn)
Input(c) == CASE c = 0 -> "u0" [] c = 1 -> "u1" [] OTHER -> "u2"

\* what the user of call c may send: a text or the empty message
UserInputs(c) == { Input(c), "" }

\* the content of the message a completion returns: a text, the empty
\* string, or null
Contents == { "a", "", NULL }

\* the truth value Python gives a string or None
Truthy(x) == x # NULL /\ x # ""

\* new_context_entry; tool_calls is <<>> when the model called no tool: the
\* code stores None there and reads the field back only for its truth
\* value, which None and [] share (the fields tool_response and
\* assistant_content, which are not read back into any decision, are left
\* out)
ContextEntry(q, r, tc, tr) ==
  [ user_query |-> q, agent_response |-> r, tool_calls |-> tc,
    tool_responses |-> tr ]

\* handle_tool_calls: one tool message per call in call order, or, when
\* anything raises, the empty list of its except branch
ToolResponses(tc, ok) ==
  IF ok THEN [ k \in 1..Len(tc) |-> ToolMessage(tc[k]) ] ELSE <<>>

\* the body of "for entry in session_context" for one entry
ReplayEntry(e) ==
  ( IF Truthy(e.user_query)
    THEN << UserMessage(e.user_query) >>
    ELSE <<>> )
  \o ( IF e.tool_calls # <<>> /\ e.tool_responses # <<>>
       THEN << ToolCallMessage(e.tool_calls) >> \o e.tool_responses
       ELSE <<>> )
  \o ( IF Truthy(e.agent_response)
       THEN << AssistantMessage(e.agent_response) >>
       ELSE <<>> )

RECURSIVE Replay(_)
Replay(ctx) ==
  IF ctx = <<>> THEN <<>>
  ELSE ReplayEntry(Head(ctx)) \o Replay(Tail(ctx))

\* messages as process_message builds it before the first request
FirstMessages(ctx, q) ==
  << SystemMessage >> \o Replay(ctx) \o << UserMessage(q) >>

\* llm_api_nexus: the last 5 exchanges, user and assistant messages only
NexusMessages(ctx, q) ==
  LET recent == IF Len(ctx) > 5 THEN SubSeq(ctx, Len(ctx) - 4, Len(ctx))
                ELSE ctx
      Pair(e) == ( IF Truthy(e.user_query)
                   THEN << UserMessage(e.user_query) >>
                   ELSE <<>> )
                 \o ( IF Truthy(e.agent_response)
                      THEN << AssistantMessage(e.agent_response) >>
                      ELSE <<>> )
      RECURSIVE Pairs(_)
      Pairs(x) == IF x = <<>> THEN <<>> ELSE Pair(Head(x)) \o Pairs(Tail(x))
  IN << SystemMessage >> \o Pairs(recent) \o << UserMessage(q) >>

\* the contexts a session can hold when a call starts: none, or one entry
\* of an earlier turn without tools, with a tool call answered, with a tool
\* call whose handling failed, or of an empty message answered with null
InitialContexts ==
  { <<>>,
    << ContextEntry(Input(0), "a", <<>>, <<>>) >>,
    << ContextEntry(Input(0), "a", ToolCallIds(0, 1),
                    ToolResponses(ToolCallIds(0, 1), TRUE)) >>,
    << ContextEntry(Input(0), "a", ToolCallIds(0, 1), <<>>) >>,
    << ContextEntry("", NULL, <<>>, <<>>) >> }

InitChat ==
  /\ Untouched
  /\ pc = [c \in Calls |-> "idle"]
  /\ call = [c \in Calls |-> NoCall]
  /\ qa_list = [c \in Calls |-> <<>>]
  /\ result = [c \in Calls |-> Unset]
  /\ users = {}
  /\ \/ session = "none" /\ context = <<>>
     \/ session = "live" /\ context \in InitialContexts
  /\ \E a \in {"tidb", "nexus"} : chat = [c \in Calls |-> IdleChat(a)]

\* the rest of the retrieval state at a step of the chat layer, which may
\* begin or end the transaction of self.conn
OnlyTransaction ==
  /\ UNCHANGED << corpus, isolation >>
  /\ UNCHANGED callVars

\* the deployment: every caller runs in the same application
App == chat[1].app

\* the transaction of self.conn after a SELECT of the chat layer ran on it
\* (the MongoDB deployment has no connection to TiDB and no transaction)
AfterSelect ==
  IF App = "tidb" THEN AfterExecute(isolation, snapshot, corpus) ELSE snapshot

\* the transaction of self.conn after self.conn.commit() or
\* self.conn.rollback()
AfterCommit == IF App = "tidb" THEN NoTransaction ELSE snapshot

\* create_session: a row with a new uuid4 id and the context "[]" is
\* inserted and committed: the session is created, or, when it exists,
\* another one is, which leaves this one as it is; an INSERT that raises is
\* rolled back and stores nothing
CreateSession ==
  /\ \/ /\ session = "none"
        /\ session' = "live"
        /\ context' = <<>>
     \/ UNCHANGED << session, context >>
  /\ snapshot' = AfterCommit
  /\ OnlyTransaction
  /\ UNCHANGED << users, chat >>

\* delete_session through DELETE /api/sessions/{id}: the row is deleted and
\* the DELETE committed; a DELETE that matches no row (the session does not
\* exist, or another one is meant) is committed and one that raises is
\* rolled back, and neither changes the session
DeleteSession ==
  /\ \/ /\ session = "live"
        /\ session' = "deleted"
        /\ context' = <<>>
     \/ UNCHANGED << session, context >>
  /\ snapshot' = AfterCommit
  /\ OnlyTransaction
  /\ UNCHANGED << users, chat >>

\* GET /api/sessions/{id}: get_session_context runs its SELECT, which
\* begins a transaction if none is open, or the SELECT raises; nothing is
\* stored
GetSessionContext ==
  /\ snapshot' \in { AfterSelect, snapshot }
  /\ OnlyTransaction
  /\ UNCHANGED chatVars

\* GET /api/users/{id}/sessions: get_user_sessions, likewise one SELECT
GetUserSessions ==
  /\ snapshot' \in { AfterSelect, snapshot }
  /\ OnlyTransaction
  /\ UNCHANGED chatVars

\* PUT /api/sessions/{id}: update_session_name sets session_name, which
\* nothing reads back, and commits, or raises and rolls back
UpdateSessionName ==
  /\ snapshot' = AfterCommit
  /\ OnlyTransaction
  /\ UNCHANGED chatVars

\* GET /api/users/{name}: get_user_by_name, one SELECT
GetUserByName ==
  /\ snapshot' \in { AfterSelect, snapshot }
  /\ OnlyTransaction
  /\ UNCHANGED chatVars

\* llm_api.process_message is entered and awaits get_tools()
ProcessMessage(c) ==
  /\ chat[c].at = "idle"
  /\ chat[c].app = "tidb"
  /\ Len(context) < MaxContext
  /\ \E q \in UserInputs(c) :
       chat' = [chat EXCEPT ![c].at = "get_tools", ![c].input = q]
  /\ UNCHANGED << users, session, context >>
  /\ UNCHANGED retrievalVars

\* update_session_context(session_id, updated) at the end of a call whose
\* requests returned: the UPDATE is committed (it changes the session's row
\* if there is one and is no error if there is none), or it raises, is
\* rolled back and False is returned and ignored; either way the
\* transaction of self.conn ends
Finish(c, local, text, updated) ==
  \E written \in BOOLEAN :
    /\ context' = IF written /\ session = "live" THEN updated ELSE context
    /\ snapshot' = NoTransaction
    /\ chat' = [chat EXCEPT ![c] =
                  [ local EXCEPT !.at = "done", !.returned = text,
                                 !.session_context = updated,
                                 !.faults = IF written THEN @
                                            ELSE @ \cup {"write"} ] ]

\* variant: the turn is stored before the request is known to have returned
Fail_Persist(c, local, at) ==
  /\ context' = Append(local.session_context,
                       ContextEntry(local.input, "", local.tool_calls, <<>>))
  /\ chat' = [chat EXCEPT ![c] = [ local EXCEPT !.at = at ] ]

\* a completion request raised: in llm_api the exception leaves
\* process_message (at = "raised"), in llm_api_nexus the except branch
\* returns the apology (at = "apology"); the lines that append the entry and
\* call update_session_context are skipped
Fail(c, local, at) ==
  /\ context' = context
  /\ chat' = [chat EXCEPT ![c] = [ local EXCEPT !.at = at ] ]

\* from get_session_context to the first completion request and, when the
\* model calls no tool, to the return (lines 252-332 without 295-315);
\* get_session_context returns [] when its query raises or finds no row,
\* and its SELECT, when it runs, begins a transaction if none is open
FirstCompletion(c) ==
  /\ chat[c].at = "get_tools"
  /\ \E readOk \in BOOLEAN :
       LET ctx   == IF readOk THEN context ELSE <<>>
           txn   == IF readOk THEN AfterExecute(isolation, snapshot, corpus)
                    ELSE snapshot
           msgs  == FirstMessages(ctx, chat[c].input)
           local == [ chat[c] EXCEPT
                        !.session_context = ctx,
                        !.messages = msgs,
                        !.requests = << msgs >>,
                        !.faults = IF readOk THEN @ ELSE @ \cup {"read"} ]
       IN \/ /\ Fail(c, local, "raised")
             /\ snapshot' = txn
          \/ \E r \in Contents :
               Finish(c, local, r,
                      Append(ctx, ContextEntry(chat[c].input, r, <<>>, <<>>)))
          \/ \E n \in 1..MaxToolCalls :
               /\ chat' = [chat EXCEPT ![c] =
                             [ local EXCEPT !.at = "handle_tool_calls",
                                            !.tool_calls = ToolCallIds(c, n) ] ]
               /\ snapshot' = txn
               /\ UNCHANGED context
  /\ OnlyTransaction
  /\ UNCHANGED << users, session >>

\* handle_tool_calls has returned: the assistant message and the tool
\* responses are appended, the follow-up request is made and the entry is
\* stored (lines 295-332)
FinalCompletion(c) ==
  /\ chat[c].at = "handle_tool_calls"
  /\ \E toolsOk \in BOOLEAN :
       LET tr    == ToolResponses(chat[c].tool_calls, toolsOk)
           msgs  == chat[c].messages
                      \o << ToolCallMessage(chat[c].tool_calls) >> \o tr
           local == [ chat[c] EXCEPT
                        !.messages = msgs,
                        !.requests = Append(@, msgs),
                        !.faults = IF toolsOk THEN @ ELSE @ \cup {"tool"} ]
       IN \/ /\ Fail(c, local, "raised")
             /\ UNCHANGED snapshot
          \/ \E r \in Contents :
               Finish(c, local, r,
                      Append(chat[c].session_context,
                             ContextEntry(chat[c].input, r,
                                          chat[c].tool_calls, tr)))
  /\ OnlyTransaction
  /\ UNCHANGED << users, session >>

\* llm_api_nexus.process_message, which awaits nothing: the context is read
\* (a raising find_one leaves the function), the request is made, and the
\* entry is appended to the local session_context and stored (update_one
\* changes the session's document if there is one); a raising request makes
\* it return its apology before the entry exists, a raising update after
\* the entry was appended
NexusProcessMessage(c) ==
  /\ chat[c].at = "idle"
  /\ chat[c].app = "nexus"
  /\ Len(context) < MaxContext
  /\ \E q \in UserInputs(c) :
       LET msgs  == NexusMessages(context, q)
           local == [ chat[c] EXCEPT !.input = q,
                                     !.session_context = context,
                                     !.messages = msgs,
                                     !.requests = << msgs >> ]
       IN \/ /\ chat' = [chat EXCEPT ![c] =
                           [ chat[c] EXCEPT !.at = "raised",
                                            !.input = q,
                                            !.faults = {"read"} ] ]
             /\ UNCHANGED context
          \/ Fail(c, [ local EXCEPT !.returned = "apology" ], "apology")
          \/ \E written \in BOOLEAN, r \in Contents :
               LET updated == Append(context,
                                     ContextEntry(q, r, <<>>, <<>>))
               IN /\ context' = IF written /\ session = "live"
                                THEN updated ELSE context
                  /\ chat' = [chat EXCEPT ![c] =
                                IF written
                                THEN [ local EXCEPT
                                         !.at = "done", !.returned = r,
                                         !.session_context = updated ]
                                ELSE [ local EXCEPT
                                         !.at = "apology",
                                         !.returned = "apology",
                                         !.session_context = updated,
                                         !.faults = {"write"} ] ]
  /\ UNCHANGED << users, session >>
  /\ UNCHANGED retrievalVars

\* the route handler has answered; the locals are gone
ChatReturn(c) ==
  /\ chat[c].at \in {"done", "raised", "apology", "created"}
  /\ chat' = [chat EXCEPT ![c] = IdleChat(chat[c].app)]
  /\ UNCHANGED << users, session, context >>
  /\ UNCHANGED retrievalVars

\* one client of the session: its messages one at a time, and the routes
\* that create, read, rename and delete sessions, which run whenever the
\* message handler is not running (before, after, and while it awaits)
NextChat ==
  \/ CreateSession
  \/ DeleteSession
  \/ GetSessionContext
  \/ GetUserSessions
  \/ UpdateSessionName
  \/ ProcessMessage(1)
  \/ FirstCompletion(1)
  \/ FinalCompletion(1)
  \/ NexusProcessMessage(1)
  \/ ChatReturn(1)

SpecChat == InitChat /\ [][NextChat]_vars

\* two requests for the same, existing session in one event loop: the
\* handlers are coroutines, so one runs until it awaits (get_tools,
\* handle_tool_calls) and the other, or one of the session routes, may run
\* from there
InitChatConc ==
  /\ InitChat
  /\ session = "live"
  /\ \A c \in Calls : chat[c].app = "tidb"

NextChatConc ==
  \/ CreateSession
  \/ DeleteSession
  \/ GetSessionContext
  \/ GetUserSessions
  \/ UpdateSessionName
  \/ \E c \in Calls :
       \/ ProcessMessage(c)
       \/ FirstCompletion(c)
       \/ FinalCompletion(c)

SpecChatConc == InitChatConc /\ [][NextChatConc]_vars

\* every call has returned its answer, no query, update or tool failed, and
\* the session was not deleted
AllCompleted ==
  /\ session = "live"
  /\ \A c \in Calls : chat[c].at = "done" /\ chat[c].faults = {}

\* C27: once all interleaved process_message calls on a session have
\* completed, the stored context holds one new entry for each of them after
\* the entries it held before: it is what the call that finished last read
\* plus its entry, and that call read what the other one had stored (no
\* call's write of the context loses the entry another call wrote).
C27_NoLostEntry ==
  AllCompleted =>
    \E c, d \in Calls :
      /\ c # d
      /\ context = chat[d].session_context
      /\ chat[c].session_context = SubSeq(context, 1, Len(context) - 1)

\* the tool calls of message k of a conversation are answered: exactly one
\* tool message per call follows, in call order, with the call's id
Answered(msgs, k) ==
  LET tc == msgs[k].tool_calls
  IN /\ \A j \in 1..Len(tc) :
          /\ k + j <= Len(msgs)
          /\ msgs[k + j].role = "tool"
          /\ msgs[k + j].tool_call_id = tc[j]
     /\ k + Len(tc) + 1 <= Len(msgs) => msgs[k + Len(tc) + 1].role # "tool"

WellFormed(msgs) ==
  \A k \in 1..Len(msgs) :
    "tool_calls" \in DOMAIN msgs[k] => Answered(msgs, k)

\* C28: in every conversation process_message sends to the LLM, an
\* assistant message carrying tool_calls is followed by exactly one tool
\* message per tool call, in call order and with the matching id, also
\* when a tool call fails.
C28_ToolCallsAnswered ==
  \A c \in Calls :
    \A r \in 1..Len(chat[c].requests) : WellFormed(chat[c].requests[r])

\* a call that ended in a failed completion request
RequestFailed(c) ==
  /\ chat[c].at \in {"raised", "apology"}
  /\ chat[c].requests # <<>>
  /\ "write" \notin chat[c].faults

\* C29: a process_message call whose completion request fails (the first
\* or the follow-up one) persists nothing: of the steps of a call only the
\* one that completes it with the model's answer changes the stored
\* context, so a call that raises (llm_api) or returns the apology
\* (llm_api_nexus) leaves the context as it found it.
C29_FailurePersistsNothing ==
  [][ \A c \in Calls :
        /\ ( chat'[c] # chat[c] /\ chat'[c].at # "done" )
             => ( context' = context /\ session' = session )
        /\ ( ~ RequestFailed(c) /\ RequestFailed(c)' )
             => ( context' = context /\ session' = session )
    ]_vars

\* the follow-up request after the tool calls failed, with a stored context
C29_Witness ==
  /\ RequestFailed(1)
  /\ Len(chat[1].requests) = 2
  /\ context # <<>>

\* the llama-nexus variant returned its apology for a failed request
C29_WitnessNexus ==
  /\ RequestFailed(1)
  /\ chat[1].app = "nexus"
  /\ chat[1].returned = "apology"
  /\ context # <<>>

\* --------------------------------------------------------------- users
UserNames == { "ann", "bob", "cy" }
UserIds   == { "id1", "id2", "id3" }     \* the values uuid4() can draw

\* variant: the lookup finds nobody
FindUser_Nobody(us, name) == {}

\* SELECT id FROM users WHERE name = %s (find_one, query(filters=...))
FindUser(us, name) == { u \in us : u.name = name }

InitUsers ==
  /\ Untouched
  /\ pc = [c \in Calls |-> "idle"]
  /\ call = [c \in Calls |-> NoCall]
  /\ qa_list = [c \in Calls |-> <<>>]
  /\ result = [c \in Calls |-> Unset]
  /\ users = {}
  /\ session = "none"
  /\ context = <<>>
  /\ chat = [c \in Calls |-> NoChat]

\* create_user(name), which runs without yielding: the lookup raises, or it
\* finds the user and returns the id, or a new id is drawn and the row is
\* inserted; an INSERT that raises (a fault, or an id already taken as
\* primary key) is rolled back and the exception is raised again; the
\* lookup that finds the user leaves its transaction open, every other
\* path ends it with its rollback or commit
CreateUser(c, name) ==
  /\ chat[c].at = "idle"
  /\ LET local == [ chat[c] EXCEPT !.input = name ]
         found == FindUser(users, name)
     IN \/ /\ chat' = [chat EXCEPT ![c] = [ local EXCEPT !.at = "raised" ]]
           /\ snapshot' = NoTransaction
           /\ UNCHANGED users
        \/ /\ found # {}
           /\ \E u \in found :
                chat' = [chat EXCEPT ![c] =
                           [ local EXCEPT !.at = "created",
                                          !.returned = u.id ]]
           /\ snapshot' = AfterSelect
           /\ UNCHANGED users
        \/ /\ found = {}
           /\ snapshot' = NoTransaction
           /\ \E id \in UserIds :
                IF \E u \in users : u.id = id
                THEN /\ chat' = [chat EXCEPT ![c] =
                                   [ local EXCEPT !.at = "raised" ]]
                     /\ UNCHANGED users
                ELSE /\ users' = users \cup { [ id |-> id, name |-> name ] }
                     /\ chat' = [chat EXCEPT ![c] =
                                   [ local EXCEPT !.at = "created",
                                                  !.returned = id ]]
  /\ OnlyTransaction
  /\ UNCHANGED << session, context >>

\* the clients of POST /api/users and GET /api/users/{name}, one request
\* at a time
NextUsers ==
  \/ GetUserByName
  \/ \E c \in Calls :
       \/ \E name \in UserNames : CreateUser(c, name)
       \/ ChatReturn(c)

SpecUsers == InitUsers /\ [][NextUsers]_vars

\* caller c's create_user call has returned an id
Created(c) == chat[c].at = "created"

\* C30: create_user(name) is get-or-create: a call for a name that exists
\* returns that user's id and inserts nothing; after any sequence of calls
\* there is at most one user per name, the id a call returned is the id of
\* the user of that name, and so calls with the same name return the same id.
C30_GetOrCreate ==
  [][ /\ \A u, v \in users' : u.name = v.name => u = v
      /\ \A c \in Calls :
           Created(c)' =>
             [ id |-> chat'[c].returned, name |-> chat'[c].input ] \in users'
      /\ \A c \in Calls :
           ( ~ Created(c) /\ Created(c)'
             /\ \E u \in users : u.name = chat'[c].input )
           => /\ users' = users
              /\ \E u \in users : /\ u.name = chat'[c].input
                                  /\ u.id = chat'[c].returned
      /\ \A c, d \in Calls :
           ( Created(c)' /\ Created(d)' /\ chat'[c].input = chat'[d].input )
           => chat'[c].returned = chat'[d].returned
    ]_vars

\* two calls with the same name have returned, next to a user of another name
C30_Witness ==
  /\ Created(1) /\ Created(2)
  /\ chat[1].input = chat[2].input
  /\ chat[1].returned = chat[2].returned
  /\ Cardinality(users) = 2

\* ------------------------------------------------ setting up the table
MaxCsvRows == 2       \* rows of a CSV file

\* the scores the texts of a CSV row will get for MatchTerm
CsvScores == { 0, 1 }

\* the difficulty field of a CSV row: a word in any case, the empty field,
\* or no field at all (a short row, for which DictReader gives None)
CsvDifficulties == { "Beginner", "", NULL }

CsvRows == [ qs : CsvScores, as : CsvScores, difficulty : CsvDifficulties ]

CsvFiles == UNION { [ 1..n -> CsvRows ] : n \in 0..MaxCsvRows }

\* the next AUTO_INCREMENT id (the ids a rolled-back INSERT used up are not
\* kept: the program reads ids only as keys)
NextId(corp) ==
  IF corp = {} THEN 1
  ELSE 1 + (CHOOSE i \in { r.id : r \in corp } :
              \A r \in corp : r.id <= i)

\* KnowledgeBaseLoader.create_kubernetes_qa_pairs_table: DROP TABLE IF
\* EXISTS, CREATE TABLE, on the loader's own connection (a transaction the
\* server has open keeps what it reads)
CreateKubernetesQaPairsTable ==
  /\ corpus # {}
  /\ corpus' = {}
  /\ UNCHANGED << isolation, snapshot >>
  /\ UNCHANGED callVars
  /\ UNCHANGED chatVars

\* KnowledgeBaseLoader.load_csv_data: every row is inserted with its
\* difficulty in lower case and all are committed together; a row without
\* a difficulty raises on .lower(), the function returns False and nothing
\* of the file is committed
LoadCsvData(file) ==
  /\ file # <<>>
  /\ \A i \in 1..Len(file) : file[i].difficulty # NULL
  /\ Cardinality(corpus) + Len(file) <= NumRecs
  /\ corpus' = corpus \cup
                 { [ qs |-> file[i].qs, as |-> file[i].as,
                     difficulty |-> Lower(file[i].difficulty),
                     id |-> NextId(corpus) + i - 1 ] : i \in 1..Len(file) }
  /\ UNCHANGED << isolation, snapshot >>
  /\ UNCHANGED callVars
  /\ UNCHANGED chatVars

\* an empty table, in a store of either isolation level
InitSetup ==
  /\ corpus = {}
  /\ isolation \in Isolations
  /\ snapshot = NoTransaction
  /\ cursor = NoResultSet
  /\ pc = [c \in Calls |-> "idle"]
  /\ call = [c \in Calls |-> NoCall]
  /\ topic = [c \in Calls |-> ""]
  /\ results_dict = [c \in Calls |-> <<>>]
  /\ question_results = [c \in Calls |-> <<>>]
  /\ answer_results = [c \in Calls |-> <<>>]
  /\ qa_list = [c \in Calls |-> <<>>]
  /\ result = [c \in Calls |-> Unset]
  /\ failed = [c \in Calls |-> {}]
  /\ users = {}
  /\ session = "none"
  /\ context = <<>>
  /\ chat = [c \in Calls |-> NoChat]

\* the setup script and the retrieval calls of the server, which use
\* separate connections and run side by side: what the script commits
\* reaches the server's statements as the store's isolation level lets it
NextSetup ==
  \/ CreateKubernetesQaPairsTable
  \/ \E file \in CsvFiles : LoadCsvData(file)
  \/ Next

SpecSetup == InitSetup /\ [][NextSetup]_vars

\* what the loader leaves in the table: rows with distinct ids and a
\* lower-case (possibly empty) difficulty
LoadedTable ==
  /\ \A r, x \in corpus : r.id = x.id => r = x
  /\ \A r \in corpus : r.difficulty \in { "beginner", "" }

====
